---- MODULE Spec2Model ----
(***************************************************************************)
(* Model of the fax order pipeline of backend/app: the OCR gateway of      *)
(* ocr_utils.py (image fetch with quality fallback, paged-document fetch   *)
(* with job polling) and the price resolution of upload_order in main.py.  *)
(*                                                                         *)
(* Texts are sequences of one-character strings.  Floats are modelled as   *)
(* exact rationals <<numerator, denominator>> with a positive denominator; *)
(* prices and quantities are integers.                                     *)
(***************************************************************************)
EXTENDS Integers, Sequences, FiniteSets, TLC

VARIABLES
    pc,                   \* position of extract_order_data / the fetch in progress
    suffix,               \* file_path.suffix as given
    bucket,               \* os.getenv("TEXTRACT_S3_BUCKET")
    payload_candidates,   \* _fetch_textract_blocks_for_image: payloads to try
    idx,                  \* index of the payload the running loop is at
    best_analyze_blocks,
    best_analyze_score,
    best_detect_blocks,
    best_detect_score,
    numPages,             \* provider: number of result pages of the job
    polls,                \* loop counter of `for _ in range(60)`
    next_token,
    blocks,               \* accumulator of _fetch_textract_blocks_for_pdf
    result,               \* the blocks the fetch returned (pc = "done")
    failedCall,           \* history: the provider/object-store call that failed
    sawBlocks,            \* history: some OCR response held at least one block
    nSucceeded,           \* history: polls that reported SUCCEEDED
    nInProgress,          \* history: polls that reported IN_PROGRESS
    failedAt,             \* history: the poll that reported FAILED (0: none)
    preprocessed_payload, \* _preprocess_image_bytes(file_path): "None" or "bytes"
    callLog,              \* history: <<call, payload>> of the analyze, detect, upload
                          \* and job-start calls made, in order (polls counts the polls)
    customer_id,          \* upload_order: form field (0: None; `if customer_id` treats 0 alike)
    products,             \* Product rows, in query order
    aliases,              \* ProductAlias rows, in query order
    pricing,              \* CustomerPricing rows, in query order
    extracted_lines,      \* upload_order: rows returned by extract_order_data
    row_idx,              \* upload_order: next row of the loop over extracted_lines
    order_lines,          \* OrderLine records added to the session
    q_text,               \* _ocr_text_quality: the argument
    q_value,              \* _ocr_text_quality: the value returned (<<>>: not called yet)
    q_prev,               \* history: argument and value of the previous call (<<>>: none)
    m_blocks,             \* _extract_metadata: the argument
    m_idx,                \* _extract_metadata: next block of `for block in blocks`
    meta,                 \* _extract_metadata: the dict being built
    table,                \* _lines_from_tables: the table at hand (rows of cell texts)
    table0,               \* history: the table as it was handed over
    table_pc,             \* "scan": in _find_header_row, "lines": it returned, "idle"
    scan_idx,             \* _find_header_row: row_idx of `enumerate(table)`
    best_row,
    best_match,
    steps,                \* history: rows _find_header_row has examined
    line_idx,             \* _lines_from_tables: index of the next row below the header
    extracted,            \* _lines_from_tables: the lines built
    table_lines,          \* extract_order_data: _lines_from_tables(tables)
    block_lines,          \* extract_order_data: _lines_from_blocks(blocks)
    lines,                \* extract_order_data: the lines returned
    sel_pc,               \* "choose": the candidates are built, "returned", "idle"
    u_pc,                 \* position of upload_order, or the HTTP outcome it ended with
    u_suffix,             \* Path(file.filename).suffix as given
    u_customer_id,        \* upload_order: form field (0: None)
    u_ocr,                \* what extract_order_data does for the stored file
    u_order_id,           \* order.id after the refresh (0: no order yet)
    u_audit_id,           \* audit.id after the refresh (0: no audit yet)
    u_row,                \* next row of `for row in extracted_lines`
    session_new,          \* objects added to the session and not committed yet
    db_orders,            \* committed SalesOrder rows
    db_audits,            \* committed OCRAudit rows
    db_lines,             \* committed OrderLine rows
    db_audit_lines        \* committed OCRAuditLine rows

ocrVars == <<pc, suffix, bucket, payload_candidates, idx, best_analyze_blocks,
             best_analyze_score, best_detect_blocks, best_detect_score, numPages,
             polls, next_token, blocks, result, failedCall, sawBlocks, nSucceeded,
             nInProgress, failedAt, preprocessed_payload, callLog>>

matchVars == <<customer_id, products, aliases, pricing, extracted_lines, row_idx, order_lines>>

qualityVars == <<q_text, q_value, q_prev>>

metaVars == <<m_blocks, m_idx, meta>>

tableVars == <<table, table0, table_pc, scan_idx, best_row, best_match, steps, line_idx, extracted>>

selectVars == <<table_lines, block_lines, lines, sel_pc>>

uploadVars == <<u_pc, u_suffix, u_customer_id, u_ocr, u_order_id, u_audit_id, u_row,
                session_new, db_orders, db_audits, db_lines, db_audit_lines>>

pureVars == <<qualityVars, metaVars, tableVars, selectVars, uploadVars>>

vars == <<ocrVars, matchVars, pureVars>>

\* _ocr_text_quality has not been called on an argument of its own.
QualityIdle ==
    /\ q_text = <<>>
    /\ q_value = <<>>
    /\ q_prev = <<>>

\* _extract_metadata has not been called on an argument of its own.
MetaIdle ==
    /\ m_blocks = <<>>
    /\ m_idx = 0
    /\ meta = <<>>

\* _lines_from_tables has not been called on a table of its own.
TableIdle ==
    /\ table = <<>>
    /\ table0 = <<>>
    /\ table_pc = "idle"
    /\ scan_idx = 0
    /\ best_row = 0
    /\ best_match = <<>>
    /\ steps = 0
    /\ line_idx = 0
    /\ extracted = <<>>

\* extract_order_data is not choosing between candidates of its own.
SelectIdle ==
    /\ table_lines = <<>>
    /\ block_lines = <<>>
    /\ lines = <<>>
    /\ sel_pc = "idle"

\* No upload request is in progress and the order tables are empty.
UploadIdle ==
    /\ u_pc = "idle"
    /\ u_suffix = ""
    /\ u_customer_id = 0
    /\ u_ocr = [raises |-> "", extracted_lines |-> <<>>, extracted_meta |-> <<>>,
                raw_text |-> <<>>]
    /\ u_order_id = 0
    /\ u_audit_id = 0
    /\ u_row = 0
    /\ session_new = <<>>
    /\ db_orders = <<>>
    /\ db_audits = <<>>
    /\ db_lines = <<>>
    /\ db_audit_lines = <<>>

PureIdle == QualityIdle /\ MetaIdle /\ TableIdle /\ SelectIdle /\ UploadIdle

\* ------------------------------------------------------------------ bounds

\* Most result pages a job's result is split over.
MaxPages == 3
\* Most TABLE blocks, and most CELL blocks, in one OCR response.
MaxTables == 1
MaxCells == 1
\* Most rows extract_order_data hands to upload_order.
MaxLines == 2

\* Longest argument of _ocr_text_quality.
MaxTextLen == 3

\* Most blocks handed to _extract_metadata.
MaxMetaBlocks == 2

\* Most rows of a table.
MaxRows == 2

\* `for _ in range(60)`
MaxPolls == 60

\* ------------------------------------------------------------------- text

RECURSIVE Rep(_, _)
Rep(x, n) == IF n <= 0 THEN <<>> ELSE <<x>> \o Rep(x, n - 1)

\* Characters are one-character strings; a character outside ASCII is written
\* as the name of its code point ("U+3042").  ord(ch):
Ord(ch) ==
    CASE ch = "\n" -> 10
      [] ch = " " -> 32
      [] ch = "#" -> 35
      [] ch = "-" -> 45
      [] ch = "." -> 46
      [] ch = "0" -> 48
      [] ch = "1" -> 49
      [] ch = "2" -> 50
      [] ch = "5" -> 53
      [] ch = "7" -> 55
      [] ch = ":" -> 58
      [] ch = "A" -> 65
      [] ch = "B" -> 66
      [] ch = "N" -> 78
      [] ch = "O" -> 79
      [] ch = "\\" -> 92
      [] ch = "a" -> 97
      [] ch = "b" -> 98
      [] ch = "o" -> 111
      [] ch = "s" -> 115
      [] ch = "U+3000" -> 12288
      [] ch = "U+3042" -> 12354
      [] ch = "U+30FB" -> 12539
      [] ch = "U+4F1D" -> 20253
      [] ch = "U+4FA1" -> 20385
      [] ch = "U+500B" -> 20491
      [] ch = "U+5358" -> 21336
      [] ch = "U+53D7" -> 21463
      [] ch = "U+53F7" -> 21495
      [] ch = "U+540D" -> 21517
      [] ch = "U+54C1" -> 21697
      [] ch = "U+6570" -> 25968
      [] ch = "U+6587" -> 25991
      [] ch = "U+6C42" -> 27714
      [] ch = "U+6CE8" -> 27880
      [] ch = "U+756A" -> 30058
      [] ch = "U+7968" -> 31080
      [] ch = "U+7D0D" -> 32013
      [] ch = "U+8ACB" -> 35531
      [] ch = "U+91CF" -> 37327
      [] ch = "U+FF11" -> 65297
      [] ch = "U+FF1A" -> 65306

\* str.split() separates on Unicode whitespace
SpaceChars == {" ", "\n", "U+3000"}

\* [\u3040-\u30ff\u4e00-\u9fffA-Za-z0-9]
JP_CHAR_RE(ch) ==
    LET c == Ord(ch)
    IN  \/ 12352 <= c /\ c <= 12543
        \/ 19968 <= c /\ c <= 40959
        \/ 65 <= c /\ c <= 90
        \/ 97 <= c /\ c <= 122
        \/ 48 <= c /\ c <= 57

IsSpace(ch) == ch \in SpaceChars

RECURSIVE LStrip(_)
LStrip(s) == IF s # <<>> /\ IsSpace(Head(s)) THEN LStrip(Tail(s)) ELSE s

RECURSIVE RStrip(_)
RStrip(s) ==
    IF s # <<>> /\ IsSpace(s[Len(s)]) THEN RStrip(SubSeq(s, 1, Len(s) - 1)) ELSE s

\* str.strip()
Strip(s) == RStrip(LStrip(s))

\* "".join(text.split())
RemoveWhitespace(s) == SelectSeq(s, LAMBDA ch : ~IsSpace(ch))

\* "\n".join(lines)
RECURSIVE JoinLines(_)
JoinLines(ls) ==
    IF ls = <<>> THEN <<>>
    ELSE IF Len(ls) = 1 THEN ls[1]
    ELSE ls[1] \o <<"\n">> \o JoinLines(Tail(ls))

\* good / max(1, len(normalized)) as the rational <<good, len>>; 0.0 is <<0, 1>>.
_ocr_text_quality(text) ==
    LET normalized == RemoveWhitespace(text)
        good == Len(SelectSeq(normalized, JP_CHAR_RE))
    IN  IF normalized = <<>> THEN <<0, 1>> ELSE <<good, Len(normalized)>>

\* ----------------------------------------------------------------- blocks

Block(type, text) == [BlockType |-> type, Text |-> text]

CountType(bs, type) == Len(SelectSeq(bs, LAMBDA b : b.BlockType = type))

_collect_raw_text(bs) ==
    LET lineBlocks == SelectSeq(bs, LAMBDA b : b.BlockType = "LINE")
        texts == [i \in 1..Len(lineBlocks) |-> Strip(lineBlocks[i].Text)]
    IN  JoinLines(SelectSeq(texts, LAMBDA t : t # <<>>))

\* a > b, a >= b for rationals with positive denominators
RatGt(a, b) == a[1] * b[2] > b[1] * a[2]
RatGe(a, b) == a[1] * b[2] >= b[1] * a[2]

\* (table_count * 40.0) + (cell_count * 1.5) + (line_count * 0.4) + (text_quality * 20.0)
_analyze_blocks_score(bs) ==
    LET table_count == CountType(bs, "TABLE")
        cell_count == CountType(bs, "CELL")
        text_quality == _ocr_text_quality(_collect_raw_text(bs))
        line_count == CountType(bs, "LINE")
    IN  << (400 * table_count + 15 * cell_count + 4 * line_count) * text_quality[2]
              + 200 * text_quality[1],
           10 * text_quality[2] >>

\* (line_count * 0.8) + (text_quality * 30.0)
_detect_blocks_score(bs) ==
    LET text_quality == _ocr_text_quality(_collect_raw_text(bs))
        line_count == CountType(bs, "LINE")
    IN  << 8 * line_count * text_quality[2] + 300 * text_quality[1],
           10 * text_quality[2] >>

\* -------------------------------------------------------- OCR provider

\* LINE texts of a response, by the quality and line count they give.
LinesNone == <<>>
LinesBlank == << <<" ">> >>
\* 2 LINE blocks, 3 good characters of 10: quality 0.3
LinesQ30x2 == << <<"a", "a", "a", "#", "#">>, <<"#", "#", " ", "#", "#", "#">> >>
\* 3 LINE blocks, 3 good characters of 5: quality 0.6
LinesQ60x3 == << <<"a", "a", "#">>, <<" ", "a", "#">>, <<" ">> >>
\* 4 LINE blocks, 6 good characters of 10: quality 0.6
LinesQ60x4 == << <<"a", "a", "#">>, <<"a", "#">>, <<"a", "a", "a">>, <<"#", "#">> >>
\* 3 LINE blocks, 4 good characters of 5: quality 0.8
LinesQ80x3 == << <<"a", "a">>, <<"a">>, <<"a", "#">> >>
\* 3 LINE blocks, 3 good characters of 6: quality 0.5
LinesQ50x3 == << <<"a", "#">>, <<"a", "#">>, <<"a", "#">> >>
\* 2 LINE blocks, quality 1.0
LinesQ100x2 == << <<"a", "a">>, <<"a">> >>

LineLibrary ==
    {LinesNone, LinesBlank, LinesQ30x2, LinesQ50x3, LinesQ60x3, LinesQ60x4, LinesQ80x3,
     LinesQ100x2}

\* response.get("Blocks", []) of one call: t TABLE, c CELL, an optional WORD
\* and the LINE blocks of ls.
MkBlocks(t, c, w, ls) ==
    Rep(Block("TABLE", <<>>), t) \o Rep(Block("CELL", <<>>), c)
        \o (IF w THEN <<Block("WORD", <<"a">>)>> ELSE <<>>)
        \o [i \in 1..Len(ls) |-> Block("LINE", ls[i])]

\* analyze_document(FeatureTypes=["TABLES"]): CELL blocks belong to a TABLE.
AnalyzeResponses ==
    UNION { { MkBlocks(t, c, w, ls) :
                c \in 0..(IF t = 0 THEN 0 ELSE MaxCells), w \in BOOLEAN, ls \in LineLibrary }
            : t \in 0..MaxTables }

\* detect_document_text: lines and words only.
DetectResponses == { MkBlocks(0, 0, w, ls) : w \in BOOLEAN, ls \in LineLibrary }

JobStatuses == {"IN_PROGRESS", "SUCCEEDED", "FAILED", "PARTIAL_SUCCESS"}

\* NextToken absent
NoToken == 0

\* The blocks of result page p of the job: p LINE blocks and a WORD.
PageBlocks(p) ==
    [i \in 1..p |-> Block("LINE", Rep("a", p) \o Rep("#", i))]
        \o <<Block("WORD", Rep("a", p))>>

\* The result page a get_document_analysis request with the given token names.
PageOf(token) == IF token = NoToken THEN 1 ELSE token

\* result.get("NextToken") of the response carrying page p of n
TokenAfter(p, n) == IF p < n THEN p + 1 ELSE NoToken

RECURSIVE PagesUpTo(_)
PagesUpTo(n) == IF n = 0 THEN <<>> ELSE PagesUpTo(n - 1) \o PageBlocks(n)

\* ------------------------------------------------------ extract_order_data

SUPPORTED_IMAGE_EXTS == {".png", ".jpg", ".jpeg", ".tif", ".tiff"}
SUPPORTED_PDF_EXTS == {".pdf"}

\* file suffixes given to extract_order_data, and str.lower() on them
Suffixes == {".png", ".JPG", ".pdf", ".PDF", ".txt", ""}

Lower(s) ==
    CASE s = ".JPG" -> ".jpg"
      [] s = ".PDF" -> ".pdf"
      [] OTHER -> s

\* Mutant: no else branch, every suffix that is no image goes to the pdf fetch.
Dispatch_NoElse(sfx) ==
    IF Lower(sfx) \in SUPPORTED_IMAGE_EXTS THEN "image" ELSE "pdf"

\* The branch of extract_order_data a suffix takes.
Dispatch(sfx) ==
    IF Lower(sfx) \in SUPPORTED_IMAGE_EXTS THEN "image"
    ELSE IF Lower(sfx) \in SUPPORTED_PDF_EXTS THEN "pdf"
    ELSE "unsupported"

\* Mutant: the preprocessed payload is appended without the None test.
Candidates_NoTest(pp) == <<"original", "preprocessed">>

\* payload_candidates: the original bytes, and the preprocessed ones if any.
Candidates(pp) ==
    IF pp # "None" THEN <<"original", "preprocessed">> ELSE <<"original">>

\* os.getenv("TEXTRACT_S3_BUCKET"): unset (None), empty or a bucket name
BucketValues == {"<unset>", "", "fax-bucket"}

\* Mutant: `bucket is None` for `not bucket`.
Falsy_OnlyNone(v) == v = "<unset>"

\* `not bucket`
Falsy(v) == v \in {"<unset>", ""}

\* The call is made: it is appended to the log with the payload it is given.
LogCall(op, payload) == callLog' = Append(callLog, <<op, payload>>)

\* Mutant: every except clause returns best_analyze_blocks, as the one around
\* the detect loop does.
ErrorOutcome_Swallow(op) == "done"

\* What the except clause around a failed call does: "failed" raises
\* OCRException, "done" returns best_analyze_blocks.
ErrorOutcome(op) == IF op = "detect" THEN "done" ELSE "failed"

CallFails(op) ==
    /\ failedCall' = op
    /\ pc' = ErrorOutcome(op)
    /\ result' = IF ErrorOutcome(op) = "done" THEN best_analyze_blocks ELSE result

\* Mutant: `or` for `and`.
AcceptAnalyze_Or(bs) ==
    \/ RatGe(_ocr_text_quality(_collect_raw_text(bs)), <<55, 100>>)
    \/ CountType(bs, "LINE") >= 3

\* analyze_quality >= 0.55 and analyze_line_count >= 3
AcceptAnalyze(bs) ==
    /\ RatGe(_ocr_text_quality(_collect_raw_text(bs)), <<55, 100>>)
    /\ CountType(bs, "LINE") >= 3

\* Mutant: the factor 6.5 for 0.65.
AcceptDetect_WrongFactor(dbs, dscore, ascore) ==
    /\ dbs # <<>>
    /\ RatGt(dscore, <<65 * ascore[1], 10 * ascore[2]>>)

\* best_detect_blocks and best_detect_score > (best_analyze_score * 0.65)
AcceptDetect(dbs, dscore, ascore) ==
    /\ dbs # <<>>
    /\ RatGt(dscore, <<65 * ascore[1], 100 * ascore[2]>>)

\* Mutant: range(61).
RangeHasNext_OffByOne(i) == i <= MaxPolls

\* `for _ in range(60)`: another iteration follows the i-th
RangeHasNext(i) == i < MaxPolls

\* Mutant: the page's blocks are not added.
ExtendBlocks_NoExtend(bs, page) == bs

\* blocks.extend(result.get("Blocks", []))
ExtendBlocks(bs, page) == bs \o page

\* Mutant: no FAILED branch.
StatusBranch_IgnoreFailed(status) ==
    IF status = "SUCCEEDED" THEN "succeeded" ELSE "sleep"

\* The branch of the status test a poll's JobStatus takes.
StatusBranch(status) ==
    IF status = "SUCCEEDED" THEN "succeeded"
    ELSE IF status = "FAILED" THEN "failed"
    ELSE "sleep"

imageLocals == <<preprocessed_payload, payload_candidates, idx, best_analyze_blocks,
                 best_analyze_score, best_detect_blocks, best_detect_score>>
pdfLocals == <<bucket, numPages, polls, next_token, blocks>>
pollHistory == <<nSucceeded, nInProgress, failedAt>>

InitOcr ==
    /\ pc = "start"
    /\ suffix \in Suffixes
    /\ bucket = "<unread>"
    /\ payload_candidates = <<>>
    /\ idx = 0
    /\ best_analyze_blocks = <<>>
    /\ best_analyze_score = <<-1, 1>>
    /\ best_detect_blocks = <<>>
    /\ best_detect_score = <<-1, 1>>
    /\ numPages = 0
    /\ polls = 0
    /\ next_token = NoToken
    /\ blocks = <<>>
    /\ result = <<>>
    /\ failedCall = "none"
    /\ sawBlocks = FALSE
    /\ nSucceeded = 0
    /\ nInProgress = 0
    /\ failedAt = 0
    /\ preprocessed_payload = "<unset>"
    /\ callLog = <<>>

\* extract_order_data, image suffix: the fetch reads the file and preprocesses
\* it (_preprocess_image_bytes returns None when the image cannot be decoded).
StartImage ==
    /\ pc = "start"
    /\ Dispatch(suffix) = "image"
    /\ \E pp \in {"None", "bytes"} :
         /\ preprocessed_payload' = pp
         /\ payload_candidates' = Candidates(pp)
    /\ idx' = 1
    /\ pc' = "analyze"
    /\ UNCHANGED <<suffix, callLog, best_analyze_blocks, best_analyze_score, best_detect_blocks,
                   best_detect_score, pdfLocals, result, failedCall, sawBlocks,
                   pollHistory, matchVars, pureVars>>

\* extract_order_data, .pdf suffix: the fetch reads the bucket configuration.
StartPdf ==
    /\ pc = "start"
    /\ Dispatch(suffix) = "pdf"
    /\ \E b \in BucketValues :
         /\ bucket' = b
         /\ pc' = IF Falsy(b) THEN "failed" ELSE "upload"
    /\ UNCHANGED <<suffix, imageLocals, numPages, polls, next_token, blocks, result,
                   failedCall, sawBlocks, pollHistory, callLog, matchVars, pureVars>>

\* extract_order_data, any other suffix: OCRException.
StartUnsupported ==
    /\ pc = "start"
    /\ Dispatch(suffix) = "unsupported"
    /\ pc' = "failed"
    /\ UNCHANGED <<suffix, imageLocals, pdfLocals, result, failedCall, sawBlocks,
                   pollHistory, callLog, matchVars, pureVars>>

\* ---------------------------------------- _fetch_textract_blocks_for_image

\* One iteration of the analyze loop; after the last payload, the acceptance
\* test of the best table-aware result.
AnalyzeOk ==
    /\ pc = "analyze"
    /\ \E bs \in AnalyzeResponses :
         LET score == _analyze_blocks_score(bs)
             better == RatGt(score, best_analyze_score)
             nb == IF better THEN bs ELSE best_analyze_blocks
             ns == IF better THEN score ELSE best_analyze_score
         IN  /\ best_analyze_blocks' = nb
             /\ best_analyze_score' = ns
             /\ sawBlocks' = (sawBlocks \/ bs # <<>>)
             /\ IF idx < Len(payload_candidates)
                THEN /\ idx' = idx + 1
                     /\ pc' = "analyze"
                     /\ result' = result
                ELSE IF AcceptAnalyze(nb)
                THEN /\ idx' = idx
                     /\ pc' = "done"
                     /\ result' = nb
                ELSE /\ idx' = 1
                     /\ pc' = "detect"
                     /\ result' = result
    /\ LogCall("analyze", payload_candidates[idx])
    /\ UNCHANGED <<suffix, preprocessed_payload, payload_candidates, best_detect_blocks,
                   best_detect_score, pdfLocals, failedCall, pollHistory, matchVars, pureVars>>

AnalyzeError ==
    /\ pc = "analyze"
    /\ CallFails("analyze")
    /\ LogCall("analyze", payload_candidates[idx])
    /\ UNCHANGED <<suffix, imageLocals, pdfLocals, sawBlocks, pollHistory, matchVars, pureVars>>

\* One iteration of the detect loop; after the last payload, the choice
\* between the plain-detect and the table-aware result.
DetectOk ==
    /\ pc = "detect"
    /\ \E bs \in DetectResponses :
         LET score == _detect_blocks_score(bs)
             better == RatGt(score, best_detect_score)
             nb == IF better THEN bs ELSE best_detect_blocks
             ns == IF better THEN score ELSE best_detect_score
         IN  /\ best_detect_blocks' = nb
             /\ best_detect_score' = ns
             /\ sawBlocks' = (sawBlocks \/ bs # <<>>)
             /\ IF idx < Len(payload_candidates)
                THEN /\ idx' = idx + 1
                     /\ pc' = "detect"
                     /\ result' = result
                ELSE /\ idx' = idx
                     /\ pc' = "done"
                     /\ result' = IF AcceptDetect(nb, ns, best_analyze_score)
                                  THEN nb ELSE best_analyze_blocks
    /\ LogCall("detect", payload_candidates[idx])
    /\ UNCHANGED <<suffix, preprocessed_payload, payload_candidates, best_analyze_blocks,
                   best_analyze_score, pdfLocals, failedCall, pollHistory, matchVars, pureVars>>

DetectError ==
    /\ pc = "detect"
    /\ CallFails("detect")
    /\ LogCall("detect", payload_candidates[idx])
    /\ UNCHANGED <<suffix, imageLocals, pdfLocals, sawBlocks, pollHistory, matchVars, pureVars>>

\* ------------------------------------------ _fetch_textract_blocks_for_pdf

UploadOk ==
    /\ pc = "upload"
    /\ pc' = "start_job"
    /\ LogCall("upload", "file")
    /\ UNCHANGED <<suffix, imageLocals, pdfLocals, result, failedCall, sawBlocks,
                   pollHistory, matchVars, pureVars>>

UploadError ==
    /\ pc = "upload"
    /\ CallFails("upload")
    /\ LogCall("upload", "file")
    /\ UNCHANGED <<suffix, imageLocals, pdfLocals, sawBlocks, pollHistory, matchVars, pureVars>>

\* start_document_analysis returns a JobId; the provider's job will deliver
\* its result in numPages pages.
StartJobOk ==
    /\ pc = "start_job"
    /\ numPages' \in 1..MaxPages
    /\ pc' = "poll"
    /\ LogCall("start", "s3object")
    /\ UNCHANGED <<suffix, imageLocals, bucket, polls, next_token, blocks, result,
                   failedCall, sawBlocks, pollHistory, matchVars, pureVars>>

\* response.get("JobId") is missing: OCRException.
StartJobNoId ==
    /\ pc = "start_job"
    /\ pc' = "failed"
    /\ LogCall("start", "s3object")
    /\ UNCHANGED <<suffix, imageLocals, pdfLocals, result, failedCall, sawBlocks,
                   pollHistory, matchVars, pureVars>>

StartJobError ==
    /\ pc = "start_job"
    /\ CallFails("start")
    /\ LogCall("start", "s3object")
    /\ UNCHANGED <<suffix, imageLocals, pdfLocals, sawBlocks, pollHistory, matchVars, pureVars>>

\* One iteration of the polling loop, the provider answering with `status`;
\* when the loop ends (break, or range exhausted) the fetch returns blocks.
PollStatus(status) ==
    /\ pc = "poll"
    /\ polls' = polls + 1
    /\ nSucceeded' = nSucceeded + (IF status = "SUCCEEDED" THEN 1 ELSE 0)
    /\ nInProgress' = nInProgress + (IF status = "IN_PROGRESS" THEN 1 ELSE 0)
    /\ failedAt' = IF status = "FAILED" THEN polls + 1 ELSE failedAt
    /\ LET branch == StatusBranch(status)
           page == PageOf(next_token)
           nb == IF branch = "succeeded" THEN ExtendBlocks(blocks, PageBlocks(page))
                 ELSE blocks
           nt == IF branch = "succeeded" THEN TokenAfter(page, numPages) ELSE next_token
           ends == \/ branch = "succeeded" /\ nt = NoToken
                   \/ ~RangeHasNext(polls + 1)
       IN  /\ blocks' = nb
           /\ next_token' = nt
           /\ sawBlocks' = (sawBlocks \/ (branch = "succeeded" /\ PageBlocks(page) # <<>>))
           /\ IF branch = "failed"
              THEN pc' = "failed" /\ result' = result
              ELSE IF ends
              THEN pc' = "done" /\ result' = nb
              ELSE pc' = "poll" /\ result' = result
    /\ UNCHANGED <<suffix, imageLocals, bucket, numPages, failedCall, callLog, matchVars, pureVars>>

PollSucceeded == PollStatus("SUCCEEDED")
PollFailed == PollStatus("FAILED")
PollInProgress == PollStatus("IN_PROGRESS")
PollPartial == PollStatus("PARTIAL_SUCCESS")

\* get_document_analysis raises BotoCoreError/ClientError.
PollError ==
    /\ pc = "poll"
    /\ polls' = polls + 1
    /\ CallFails("poll")
    /\ UNCHANGED <<suffix, imageLocals, bucket, numPages, next_token, blocks, sawBlocks,
                   pollHistory, callLog, matchVars, pureVars>>

\* ------------------------------------------------- upload_order: catalog

\* str.lower()
LowerChar(ch) ==
    CASE ch = "A" -> "a"
      [] ch = "B" -> "b"
      [] ch = "N" -> "n"
      [] ch = "O" -> "o"
      [] ch = "U" -> "u"
      [] OTHER -> ch

LowerText(s) == [i \in 1..Len(s) |-> LowerChar(s[i])]

\* `sub in text` for strings
Contains(sub, text) ==
    \E i \in 0..(Len(text) - Len(sub)) : SubSeq(text, i + 1, i + Len(sub)) = sub

\* A dict as the sequence of its <<key, value>> items in insertion order;
\* assigning an existing key keeps the key's position.
DictPut(d, k, v) ==
    IF \E i \in 1..Len(d) : d[i][1] = k
    THEN [i \in 1..Len(d) |-> IF d[i][1] = k THEN <<k, v>> ELSE d[i]]
    ELSE Append(d, <<k, v>>)

RECURSIVE DictOf(_)
DictOf(items) ==
    IF items = <<>> THEN <<>>
    ELSE LET n == Len(items)
         IN  DictPut(DictOf(SubSeq(items, 1, n - 1)), items[n][1], items[n][2])

\* Mutant: no product is found.
GetProduct_Missing(id) == <<>>

\* session.get(Product, id): <<>> is None
GetProduct(id) == SelectSeq(products, LAMBDA p : p.id = id)

\* select(CustomerPricing).where(customer_id, product_id).first(): <<>> is None
FirstPricing(cid, pid) ==
    LET rows == SelectSeq(pricing, LAMBDA r : r.customer_id = cid /\ r.product_id = pid)
    IN  IF rows = <<>> THEN <<>> ELSE <<rows[1]>>

\* Mutant: the `alias_name and` / `product_name and` test is missing.
FirstHit_AllowEmpty(d, text) ==
    LET hits == {i \in 1..Len(d) : Contains(d[i][1], text)}
    IN  IF hits = {} THEN 0 ELSE CHOOSE i \in hits : \A j \in hits : i <= j

\* The first item of dict d whose key is non-empty and contained in text:
\* its index, 0 when there is none.
FirstHit(d, text) ==
    LET hits == {i \in 1..Len(d) : d[i][1] # <<>> /\ Contains(d[i][1], text)}
    IN  IF hits = {} THEN 0 ELSE CHOOSE i \in hits : \A j \in hits : i <= j

\* The catalog: two products, an alias of product 2 and an alias with an empty name.
ProductTables ==
    { << [id |-> 1, internal_name |-> <<"A", "b">>, base_price |-> 10],
         [id |-> 2, internal_name |-> <<"B", "B">>, base_price |-> 20] >> }

AliasTables ==
    { << [alias_name |-> <<>>, product_id |-> 1],
         [alias_name |-> <<"A", "1">>, product_id |-> 2] >> }

\* CustomerPricing tables: overrides of customers 1 and 2, an override of 0.0
\* and two overrides of one product.
PricingTables ==
    { <<>>,
      << [customer_id |-> 1, product_id |-> 1, override_price |-> 99] >>,
      << [customer_id |-> 1, product_id |-> 1, override_price |-> 0] >>,
      << [customer_id |-> 2, product_id |-> 1, override_price |-> 99] >>,
      << [customer_id |-> 1, product_id |-> 2, override_price |-> 99],
         [customer_id |-> 1, product_id |-> 2, override_price |-> 50] >>,
      << [customer_id |-> 1, product_id |-> 1, override_price |-> 99],
         [customer_id |-> 1, product_id |-> 2, override_price |-> 0] >> }

\* extracted_text values: an alias hit, a name hit, no hit
LineTexts == { <<"a", "1">>, <<"1", "a", "B">>, <<"1", "1">> }

\* Rows as _lines_from_tables builds them: quantity is int(...) or 1,
\* line_total is amount or unit_price * quantity.
TableRows ==
    { [extracted_text |-> t, quantity |-> q, unit_price |-> u,
       line_total |-> IF a # 0 THEN a ELSE u * q] :
        t \in LineTexts, q \in {1, 2}, u \in {0, 5}, a \in {0, 500} }

\* Table rows whose text holds the alias of product 2 and the name of product 1.
BothRows ==
    { [extracted_text |-> <<"a", "1", "a", "B">>, quantity |-> 1, unit_price |-> u,
       line_total |-> u] : u \in {0, 5} }

\* Rows as _lines_from_blocks builds them.
BlockRows ==
    { [extracted_text |-> t, quantity |-> q, unit_price |-> 0, line_total |-> 0] :
        t \in LineTexts, q \in {0, 1, 2} }

SeqsUpTo(S, n) == UNION { [1..k -> S] : k \in 1..n }

\* extract_order_data returns the table-derived rows or the raw-line rows.
ExtractedLineSets ==
    SeqsUpTo(TableRows, MaxLines) \cup SeqsUpTo(BlockRows, MaxLines)
        \cup SeqsUpTo(BothRows, MaxLines)

\* ------------------------------------------- upload_order: line resolution

\* Mutant: the name loop runs whatever the alias loop found.
TryNames_Always(product_id) == TRUE

\* if not product_id:
TryNames(product_id) == product_id = 0

\* Product matching of one row: the alias loop, then the name loop, whose hit
\* replaces what the alias loop assigned.
MatchProduct(extracted_text) ==
    LET alias_map == DictOf([i \in 1..Len(aliases) |->
                               <<LowerText(aliases[i].alias_name), aliases[i].product_id>>])
        product_name_map == DictOf([i \in 1..Len(products) |->
                               <<LowerText(products[i].internal_name), products[i]>>])
        lower_text == LowerText(extracted_text)
        ah == FirstHit(alias_map, lower_text)
        alias_product_id == IF ah = 0 THEN 0 ELSE alias_map[ah][2]
        alias_product == GetProduct(alias_product_id)
        nh == IF TryNames(alias_product_id) THEN FirstHit(product_name_map, lower_text) ELSE 0
    IN  IF nh # 0
        THEN [product_id |-> product_name_map[nh][2].id,
              normalized_name |-> product_name_map[nh][2].internal_name,
              status |-> "matched"]
        ELSE IF ah # 0
        THEN [product_id |-> alias_product_id,
              normalized_name |-> IF alias_product # <<>>
                                  THEN alias_product[1].internal_name ELSE extracted_text,
              status |-> "matched"]
        ELSE [product_id |-> 0,
              normalized_name |-> extracted_text,
              status |-> "needs-review"]

\* unit_price = unit_price or pricing.override_price
ApplyOverride(unit_price, override_price) ==
    IF unit_price # 0 THEN unit_price ELSE override_price

\* Price of one row, given the product it resolved to (0: none).
ResolvePrice(row_unit_price, product_id) ==
    LET p1 == IF product_id # 0 /\ customer_id # 0
                 /\ FirstPricing(customer_id, product_id) # <<>>
              THEN ApplyOverride(row_unit_price,
                                 FirstPricing(customer_id, product_id)[1].override_price)
              ELSE row_unit_price
        product == GetProduct(product_id)
    IN  IF product_id # 0 /\ p1 = 0 /\ product # <<>>
        THEN product[1].base_price
        ELSE p1

\* int(row.get("quantity") or 1)
ResolveQuantity(row_quantity) == IF row_quantity # 0 THEN row_quantity ELSE 1

\* Mutant: the quantity factor is missing.
ResolveLineTotal_NoQuantity(row_line_total, unit_price, quantity) ==
    IF row_line_total # 0 THEN row_line_total ELSE unit_price

\* float(row.get("line_total") or 0.0) or (unit_price * quantity)
ResolveLineTotal(row_line_total, unit_price, quantity) ==
    IF row_line_total # 0 THEN row_line_total ELSE unit_price * quantity

\* One iteration of `for row in extracted_lines`: the OrderLine it adds
\* (src is the index of the row it was resolved from).
ResolveRow ==
    /\ row_idx \in 1..Len(extracted_lines)
    /\ LET row == extracted_lines[row_idx]
           extracted_text == Strip(row.extracted_text)
           m == MatchProduct(extracted_text)
           unit_price == ResolvePrice(row.unit_price, m.product_id)
           quantity == ResolveQuantity(row.quantity)
           line_total == ResolveLineTotal(row.line_total, unit_price, quantity)
       IN  order_lines' =
               IF extracted_text = <<>> THEN order_lines
               ELSE Append(order_lines,
                           [src |-> row_idx,
                            product_id |-> m.product_id,
                            extracted_text |-> extracted_text,
                            normalized_name |-> m.normalized_name,
                            quantity |-> quantity,
                            unit_price |-> unit_price,
                            line_total |-> line_total,
                            status |-> m.status])
    /\ row_idx' = row_idx + 1
    /\ UNCHANGED <<customer_id, products, aliases, pricing, extracted_lines, ocrVars, pureVars>>

InitMatchSpec ==
    /\ customer_id \in {0, 1}
    /\ products \in ProductTables
    /\ aliases \in AliasTables
    /\ pricing \in PricingTables
    /\ extracted_lines \in ExtractedLineSets
    /\ row_idx = 1
    /\ order_lines = <<>>
    /\ InitOcr
    /\ suffix = ".pdf"
    /\ PureIdle

NextMatch == ResolveRow

\* upload_order's resolution of the rows extract_order_data returned.
SpecMatch == InitMatchSpec /\ [][NextMatch]_vars

\* ------------------------------------------------------------------- spec

MatchIdle ==
    /\ customer_id = 0
    /\ products = <<>>
    /\ aliases = <<>>
    /\ pricing = <<>>
    /\ extracted_lines = <<>>
    /\ row_idx = 0
    /\ order_lines = <<>>

Init == InitOcr /\ MatchIdle /\ PureIdle

Next ==
    \/ StartImage
    \/ StartPdf
    \/ StartUnsupported
    \/ AnalyzeOk
    \/ AnalyzeError
    \/ DetectOk
    \/ DetectError
    \/ UploadOk
    \/ UploadError
    \/ StartJobOk
    \/ StartJobNoId
    \/ StartJobError
    \/ PollSucceeded
    \/ PollFailed
    \/ PollInProgress
    \/ PollPartial
    \/ PollError

Spec == Init /\ [][Next]_vars

\* ----------------------------------------------------------------- claims

IsPdfFetch == Lower(suffix) \in SUPPORTED_PDF_EXTS
IsImageFetch == Lower(suffix) \in SUPPORTED_IMAGE_EXTS
Quality(bs) == _ocr_text_quality(_collect_raw_text(bs))
RatEq(a, b) == a[1] * b[2] = b[1] * a[2]

\* C1: when all 60 polls report a status that is neither SUCCEEDED nor FAILED
\* (and no poll call fails), the paged-document fetch ends in an extraction
\* failure; it does not return blocks normally.
C1_TimeoutIsFailure ==
    (/\ IsPdfFetch
     /\ polls = MaxPolls
     /\ nSucceeded = 0
     /\ failedAt = 0
     /\ failedCall = "none")
        => pc = "failed"

\* C2: for every k in 0..59, a job of a single result page that reports
\* IN_PROGRESS on its first k polls and SUCCEEDED on poll k+1 makes the fetch
\* return exactly the blocks of that page.
C2_SuccessAfterKPolls ==
    \A k \in 0..(MaxPolls - 1) :
        (/\ IsPdfFetch
         /\ numPages = 1
         /\ polls = k + 1
         /\ nInProgress = k
         /\ nSucceeded = 1)
            => (pc = "done" /\ result = PageBlocks(1))

\* C2 witness: success on the 60th poll after 59 IN_PROGRESS polls.
C2_Witness ==
    /\ pc = "done"
    /\ numPages = 1
    /\ polls = MaxPolls
    /\ nInProgress = MaxPolls - 1
    /\ nSucceeded = 1
    /\ result = PageBlocks(1)

\* C3: whenever the paged-document fetch returns normally, the returned blocks
\* are the concatenation, in page order, of every result page of the job.
C3_AllPagesReturned ==
    (IsPdfFetch /\ pc = "done") => result = PagesUpTo(numPages)

\* C4: get_document_analysis is called at most 60 times, and after the 60th
\* call the fetch has returned or failed.
C4_BoundedPolling ==
    /\ polls <= MaxPolls
    /\ polls = MaxPolls => pc \in {"done", "failed"}

\* C4 witness: the fetch has ended after exactly 60 polls.
C4_Witness == polls = MaxPolls /\ pc = "done" /\ nSucceeded > 0

\* C5 as stated: after any provider or object-store call failed, extract has
\* ended in an extraction failure; it never returns normally.
C5_Original == failedCall # "none" => pc = "failed"

\* C5 amended: a failed analyze, upload, job start or poll ends extract in an
\* extraction failure; a failed plain detect-text call is not surfaced: the
\* image fetch returns the best table-aware blocks.
C5_Amended ==
    /\ failedCall \in {"analyze", "upload", "start", "poll"} => pc = "failed"
    /\ failedCall = "detect" => (pc = "done" /\ result = best_analyze_blocks)

\* C5 witness: a poll call fails after an earlier poll delivered a result page.
C5_Witness == failedCall = "poll" /\ nSucceeded > 0 /\ pc = "failed"

\* C6: a poll reporting FAILED ends the fetch in an extraction failure at that
\* poll: no later poll is made and no blocks are returned, also when earlier
\* polls delivered result pages.
C6_FailedStatusIsFatal ==
    failedAt # 0 => (pc = "failed" /\ polls = failedAt /\ result = <<>>)

\* C6 witness: FAILED is reported after SUCCEEDED polls delivered pages.
C6_Witness == failedAt # 0 /\ nSucceeded > 0 /\ blocks # <<>> /\ pc = "failed"

\* The case of C7: both loops of the image fetch completed, the best
\* table-aware result has quality 0.3 and 2 LINE blocks, the best plain-detect
\* result has quality 0.6 and more than 2 LINE blocks.
C7_Case ==
    /\ IsImageFetch
    /\ pc = "done"
    /\ failedCall = "none"
    /\ best_detect_score # <<-1, 1>>
    /\ RatEq(Quality(best_analyze_blocks), <<3, 10>>)
    /\ CountType(best_analyze_blocks, "LINE") = 2
    /\ RatEq(Quality(best_detect_blocks), <<6, 10>>)
    /\ CountType(best_detect_blocks, "LINE") > 2

\* C7 as stated: in that case the image fetch returns the plain-detect
\* blocks, whatever other blocks the two results contain.
C7_Original == C7_Case => result = best_detect_blocks

\* C7 amended: in that case the image fetch returns the plain-detect blocks
\* when the table-aware result contains no TABLE and no CELL block.
C7_Amended ==
    (/\ C7_Case
     /\ CountType(best_analyze_blocks, "TABLE") = 0
     /\ CountType(best_analyze_blocks, "CELL") = 0)
        => result = best_detect_blocks

\* C7 witness: the plain-detect blocks are returned in the case of C7.
C7_Witness ==
    /\ C7_Case
    /\ CountType(best_analyze_blocks, "TABLE") = 0
    /\ CountType(best_analyze_blocks, "CELL") = 0
    /\ result = best_detect_blocks
    /\ result # best_analyze_blocks

\* C8: when some OCR response obtained during the image fetch held at least
\* one block, the block set the fetch returns is not empty.
C8_NeverEmpty ==
    (IsImageFetch /\ pc = "done" /\ sawBlocks) => result # <<>>

\* The row an order line was resolved from, and the price the precedence of
\* C9 gives it.
RowOf(ol) == extracted_lines[ol.src]
C9_Expected(ol) ==
    IF RowOf(ol).unit_price # 0 THEN RowOf(ol).unit_price
    ELSE IF customer_id # 0 /\ FirstPricing(customer_id, ol.product_id) # <<>>
    THEN FirstPricing(customer_id, ol.product_id)[1].override_price
    ELSE GetProduct(ol.product_id)[1].base_price

\* C9: a resolved line's unit_price is the row's own unit_price when non-zero,
\* otherwise the customer's override when one exists (whatever its value),
\* otherwise the product's base price.
C9_PricePrecedence ==
    \A i \in 1..Len(order_lines) :
        order_lines[i].product_id # 0
            => order_lines[i].unit_price = C9_Expected(order_lines[i])

\* A line whose unit_price was defaulted: its product is resolved and the
\* row's own unit_price was 0.
Defaulted(ol) == ol.product_id # 0 /\ RowOf(ol).unit_price = 0

\* C10 as stated: a line whose unit_price was defaulted has
\* line_total = unit_price * quantity, whatever line_total the row carried.
C10_Original ==
    \A i \in 1..Len(order_lines) :
        Defaulted(order_lines[i])
            => order_lines[i].line_total
                   = order_lines[i].unit_price * order_lines[i].quantity

\* C10 amended: a line whose unit_price was defaulted has
\* line_total = unit_price * quantity when the row's line_total is 0, and
\* keeps the row's line_total when that is non-zero.
C10_Amended ==
    \A i \in 1..Len(order_lines) :
        Defaulted(order_lines[i])
            => order_lines[i].line_total
                   = IF RowOf(order_lines[i]).line_total = 0
                     THEN order_lines[i].unit_price * order_lines[i].quantity
                     ELSE RowOf(order_lines[i]).line_total

\* C10 witness: a defaulted override price multiplied by a quantity of 2.
C10_Witness ==
    \E i \in 1..Len(order_lines) :
        /\ Defaulted(order_lines[i])
        /\ RowOf(order_lines[i]).line_total = 0
        /\ order_lines[i].quantity = 2
        /\ order_lines[i].unit_price = 99
        /\ order_lines[i].line_total = 198

\* The calls of one kind in the log, and the payloads they were given.
CallsOf(op) == SelectSeq(callLog, LAMBDA c : c[1] = op)
PayloadsOf(op) == [i \in 1..Len(CallsOf(op)) |-> CallsOf(op)[i][2]]

\* C17: when the suffix is neither a supported image extension nor .pdf,
\* extract fails, and no OCR provider call, no preprocessing and no upload
\* has been made.
C17_UnsupportedRejectedFirst ==
    Lower(suffix) \notin (SUPPORTED_IMAGE_EXTS \cup SUPPORTED_PDF_EXTS)
        => /\ pc \in {"start", "failed"}
           /\ callLog = <<>>
           /\ polls = 0
           /\ preprocessed_payload = "<unset>"

\* C17 witness: extract has failed on a .txt file without any call.
C17_Witness ==
    /\ suffix = ".txt"
    /\ pc = "failed"
    /\ callLog = <<>>
    /\ polls = 0

\* C18: when the bucket configuration is absent (unset or empty), the paged
\* document fetch has failed, and the file was not uploaded and no OCR provider
\* call (job start, poll) was made.
C18_NoBucketRejectedFirst ==
    (Lower(suffix) \in SUPPORTED_PDF_EXTS /\ bucket \in {"<unset>", ""})
        => /\ pc = "failed"
           /\ callLog = <<>>
           /\ polls = 0

\* C18 witness: the fetch has failed on an empty bucket name.
C18_Witness ==
    /\ Lower(suffix) \in SUPPORTED_PDF_EXTS
    /\ bucket = ""
    /\ pc = "failed"
    /\ callLog = <<>>

\* The acceptance bar of the table-aware result: text quality >= 0.55 and at
\* least 3 LINE blocks.
MeetsBar(bs) == RatGe(Quality(bs), <<55, 100>>) /\ CountType(bs, "LINE") >= 3

\* C19: when preprocessing returned nothing, the image fetch does not fail
\* because of it, every call is given the original bytes, and a fetch that
\* returns without a failed call has made the table-aware call once and, if the
\* bar was missed, the plain-detect call once, and returns what the selection
\* policy gives for these two results.
C19_PreprocessFailureNonFatal ==
    preprocessed_payload = "None"
        => /\ pc = "failed" => failedCall = "analyze"
           /\ \A i \in 1..Len(callLog) : callLog[i][2] = "original"
           /\ (pc = "done" /\ failedCall = "none")
                 => IF MeetsBar(best_analyze_blocks)
                    THEN /\ callLog = << <<"analyze", "original">> >>
                         /\ result = best_analyze_blocks
                    ELSE /\ callLog = << <<"analyze", "original">>,
                                         <<"detect", "original">> >>
                         /\ result =
                              IF /\ best_detect_blocks # <<>>
                                 /\ RatGt(best_detect_score,
                                          <<65 * best_analyze_score[1],
                                            100 * best_analyze_score[2]>>)
                              THEN best_detect_blocks
                              ELSE best_analyze_blocks

\* C19 witness: without a preprocessed payload the bar is missed and the
\* plain-detect result of the original bytes is returned.
C19_Witness ==
    /\ preprocessed_payload = "None"
    /\ pc = "done"
    /\ failedCall = "none"
    /\ callLog = << <<"analyze", "original">>, <<"detect", "original">> >>
    /\ result = best_detect_blocks
    /\ result # best_analyze_blocks

\* C20 as stated: the image fetch returns the best table-aware result with no
\* plain-detect call exactly when it meets the bar; in every other case a
\* result is returned only after plain-detect was attempted on each payload
\* candidate.
C20_Original ==
    (IsImageFetch /\ pc = "done")
        => IF MeetsBar(best_analyze_blocks)
           THEN PayloadsOf("detect") = <<>> /\ result = best_analyze_blocks
           ELSE PayloadsOf("detect") = payload_candidates

\* C20 amended: as stated, except that a plain-detect attempt that fails with
\* a provider error ends the attempts: the payload candidates after it are not
\* tried and the best table-aware result is returned.
C20_Amended ==
    (IsImageFetch /\ pc = "done")
        => IF MeetsBar(best_analyze_blocks)
           THEN PayloadsOf("detect") = <<>> /\ result = best_analyze_blocks
           ELSE IF failedCall = "detect"
           THEN /\ PayloadsOf("detect") # <<>>
                /\ PayloadsOf("detect")
                     = SubSeq(payload_candidates, 1, Len(PayloadsOf("detect")))
                /\ result = best_analyze_blocks
           ELSE PayloadsOf("detect") = payload_candidates

\* C20 witness: the bar is missed with 3 LINE blocks of low quality, and
\* plain-detect ran on both payload candidates.
C20_Witness ==
    /\ IsImageFetch
    /\ pc = "done"
    /\ failedCall = "none"
    /\ CountType(best_analyze_blocks, "LINE") >= 3
    /\ ~MeetsBar(best_analyze_blocks)
    /\ PayloadsOf("detect") = <<"original", "preprocessed">>

\* The lowercased text contains the lowercased key, and the key is non-empty.
Hits(key, text) ==
    LowerText(key) # <<>> /\ Contains(LowerText(key), LowerText(text))

\* Text t contains no non-empty alias and no non-empty product name.
Unknown(t) ==
    /\ \A i \in 1..Len(aliases) : ~Hits(aliases[i].alias_name, t)
    /\ \A i \in 1..Len(products) : ~Hits(products[i].internal_name, t)

\* C12: every resolved line has status matched or needs-review; it is
\* needs-review exactly when its lowercased text contains no non-empty alias
\* and no non-empty product name, and then its product_id is null and its
\* normalized_name is the extracted text; the resolved lines follow the order
\* of the rows they come from.
C12_StatusOfLine ==
    /\ \A k \in 1..Len(order_lines) :
          LET ol == order_lines[k]
          IN  /\ ol.status \in {"matched", "needs-review"}
              /\ ol.status = "needs-review" <=> Unknown(ol.extracted_text)
              /\ ol.status = "needs-review"
                    => /\ ol.product_id = 0
                       /\ ol.normalized_name = ol.extracted_text
                       /\ ol.extracted_text = Strip(RowOf(ol).extracted_text)
    /\ \A j, k \in 1..Len(order_lines) : j < k => order_lines[j].src < order_lines[k].src

\* C12 witness: a row matched by alias followed by a row of an unknown product.
C12_Witness ==
    /\ Len(order_lines) = 2
    /\ order_lines[1].status = "matched"
    /\ \E i \in 1..Len(aliases) : Hits(aliases[i].alias_name, order_lines[1].extracted_text)
    /\ order_lines[2].status = "needs-review"
    /\ order_lines[2].product_id = 0
    /\ order_lines[2].normalized_name = <<"1", "1">>

\* ------------------------------------------------ _ocr_text_quality alone

\* unicodedata.category(ch)
UnicodeCategory(ch) ==
    CASE ch \in {"\n"} -> "Cc"
      [] ch \in {" ", "U+3000"} -> "Zs"
      [] ch \in {"#", "U+30FB"} -> "Po"
      [] ch \in {"0", "1", "U+FF11"} -> "Nd"
      [] ch \in {"A", "B"} -> "Lu"
      [] ch \in {"a", "b"} -> "Ll"
      [] ch \in {"U+3042", "U+54C1"} -> "Lo"

\* Characters of the arguments: ASCII letter, digit and punctuation, space,
\* ideographic space, hiragana, a CJK ideograph, a full-width digit and the
\* katakana middle dot.
QualityChars == {"a", "1", "#", " ", "U+3000", "U+3042", "U+54C1", "U+FF11", "U+30FB"}

QualityTexts == UNION { [1..n -> QualityChars] : n \in 0..MaxTextLen }

\* s with ch put in front of position pos + 1
InsertAt(s, pos, ch) == SubSeq(s, 1, pos) \o <<ch>> \o SubSeq(s, pos + 1, Len(s))

InitQuality ==
    /\ q_text \in QualityTexts
    /\ q_value = <<>>
    /\ q_prev = <<>>
    /\ InitOcr
    /\ suffix = ".pdf"
    /\ MatchIdle
    /\ MetaIdle
    /\ TableIdle
    /\ SelectIdle
    /\ UploadIdle

\* value = _ocr_text_quality(text)
TextQuality ==
    /\ q_value = <<>>
    /\ q_value' = _ocr_text_quality(q_text)
    /\ UNCHANGED <<q_text, q_prev, ocrVars, matchVars, metaVars, tableVars,
                   selectVars, uploadVars>>

\* The caller puts one punctuation character into the text it has the quality
\* of and asks again.
InsertNoise ==
    /\ q_value # <<>>
    /\ q_prev = <<>>
    /\ \E pos \in 0..Len(q_text), ch \in {c \in QualityChars : UnicodeCategory(c) = "Po"} :
          q_text' = InsertAt(q_text, pos, ch)
    /\ q_prev' = [text |-> q_text, value |-> q_value]
    /\ q_value' = <<>>
    /\ UNCHANGED <<ocrVars, matchVars, metaVars, tableVars,
                   selectVars, uploadVars>>

NextQuality == TextQuality \/ InsertNoise

SpecQuality == InitQuality /\ [][NextQuality]_vars

\* A character that is alphanumeric (a letter or a digit), which the kana and
\* the CJK ideographs are too.
IsAlnumOrKanaCJK(ch) == UnicodeCategory(ch) \in {"Lu", "Ll", "Lo", "Nd"}

\* C16: the text quality is in [0,1]; it is 0 for an empty or all-whitespace
\* text, 1 for a text with a non-whitespace character whose non-whitespace
\* characters are all alphanumeric or kana/CJK ideographs, and after one
\* punctuation character is inserted it is not greater than before.
C16_TextQuality ==
    q_value # <<>>
        => LET nonspace == SelectSeq(q_text, LAMBDA ch : UnicodeCategory(ch) \notin {"Zs", "Cc"})
           IN  /\ RatGe(q_value, <<0, 1>>) /\ RatGe(<<1, 1>>, q_value)
               /\ nonspace = <<>> => RatEq(q_value, <<0, 1>>)
               /\ (nonspace # <<>> /\ \A i \in 1..Len(nonspace) : IsAlnumOrKanaCJK(nonspace[i]))
                     => RatEq(q_value, <<1, 1>>)
               /\ q_prev # <<>> => RatGe(q_prev.value, q_value)

\* ------------------------------------------------ _extract_metadata alone

\* `k in d`, d[k]
DictHas(d, k) == \E i \in 1..Len(d) : d[i][1] = k
DictGet(d, k) == d[CHOOSE i \in 1..Len(d) : d[i][1] = k][2]

\* The label alternatives of the three patterns, in the order of the dict.
OrderLabels ==
    << <<"U+6CE8", "U+6587", "U+756A", "U+53F7">>, <<"U+6CE8", "U+6587", "N", "o">>,
       <<"U+6CE8", "U+6587", "N", "O">>, <<"U+53D7", "U+6CE8", "U+756A", "U+53F7">> >>
DeliveryLabels ==
    << <<"U+7D0D", "U+54C1", "U+756A", "U+53F7">>, <<"U+7D0D", "U+54C1", "N", "o">>,
       <<"U+4F1D", "U+7968", "N", "o">>, <<"U+4F1D", "U+7968", "U+756A", "U+53F7">> >>
InvoiceLabels ==
    << <<"U+8ACB", "U+6C42", "U+756A", "U+53F7">>, <<"U+8ACB", "U+6C42", "N", "o">>,
       <<"U+8ACB", "U+6C42", "N", "O">> >>

patterns ==
    << <<"order_number", OrderLabels>>,
       <<"delivery_number", DeliveryLabels>>,
       <<"invoice_number", InvoiceLabels>> >>

\* [A-Za-z0-9\\-] in the raw string: letters, digits, backslash, hyphen
TokenChar(ch) ==
    LET c == Ord(ch)
    IN  \/ 65 <= c /\ c <= 90
        \/ 97 <= c /\ c <= 122
        \/ 48 <= c /\ c <= 57
        \/ c = 92
        \/ c = 45

\* The position after the longest run of "s" from p, and of token characters.
RECURSIVE SRunEnd(_, _)
SRunEnd(text, p) ==
    IF p <= Len(text) /\ text[p] = "s" THEN SRunEnd(text, p + 1) ELSE p

RECURSIVE TokenEnd(_, _)
TokenEnd(text, p) ==
    IF p <= Len(text) /\ TokenChar(text[p]) THEN TokenEnd(text, p + 1) ELSE p

\* `\\s*` in the raw string: a backslash, then any number of "s".  The position
\* after it when it matches at p, 0 otherwise.
BackslashS(text, p) ==
    IF p <= Len(text) /\ text[p] = "\\" THEN SRunEnd(text, p + 1) ELSE 0

\* group(2) of the pattern matched at position pos, <<>> when it does not
\* match there: label, `\\s*`, an optional half- or full-width colon, `\\s*`, `([A-Za-z0-9\\-]+)`.  The
\* second s* gives back its last "s" when no token character follows it.
MatchAt(text, pos, labels) ==
    LET hit == {k \in 1..Len(labels) :
                   /\ pos + Len(labels[k]) - 1 <= Len(text)
                   /\ SubSeq(text, pos, pos + Len(labels[k]) - 1) = labels[k]}
        label == labels[CHOOSE k \in hit : \A j \in hit : k <= j]
        p1 == BackslashS(text, pos + Len(label))
        p2 == IF p1 # 0 /\ p1 <= Len(text) /\ text[p1] \in {":", "U+FF1A"}
              THEN p1 + 1 ELSE p1
        p3 == IF p1 = 0 THEN 0 ELSE BackslashS(text, p2)
        p4 == TokenEnd(text, p3)
    IN  IF hit = {} \/ p1 = 0 \/ p3 = 0 THEN <<>>
        ELSE IF p4 > p3 THEN SubSeq(text, p3, p4 - 1)
        ELSE IF text[p3 - 1] = "s" THEN <<"s">>
        ELSE <<>>

\* pattern.search(text): group(2) of the leftmost match, <<>> for None
PatternSearch(text, labels) ==
    LET at == {pos \in 1..Len(text) : MatchAt(text, pos, labels) # <<>>}
    IN  IF at = {} THEN <<>>
        ELSE MatchAt(text, CHOOSE pos \in at : \A q \in at : pos <= q, labels)

\* Mutant: the test `if key in meta: continue` is missing.
KeyRecorded_Never(d, key) == FALSE

\* if key in meta: continue
KeyRecorded(d, key) == DictHas(d, key)

\* `for key, pattern in patterns.items()` from the k-th pattern on
RECURSIVE ScanPatterns(_, _, _)
ScanPatterns(d, text, k) ==
    IF k > Len(patterns) THEN d
    ELSE LET key == patterns[k][1]
             token == PatternSearch(text, patterns[k][2])
         IN  IF KeyRecorded(d, key) \/ token = <<>>
             THEN ScanPatterns(d, text, k + 1)
             ELSE ScanPatterns(DictPut(d, key, token), text, k + 1)

\* Line texts: a label of each key, followed by nothing, a colon, a full-width
\* colon and a space, or by the backslashes the patterns ask for, and a token;
\* a line with two keys, a line with one key twice, a line without a label.
MetaSeps ==
    { <<>>, <<":">>, <<"U+FF1A", " ">>, <<"\\", "\\">>, <<"\\", "s", ":", "\\">> }

MetaTokens == { <<"A", "-", "1">>, <<"s">> }

MetaTexts ==
    { l \o sp \o t : l \in {OrderLabels[1], DeliveryLabels[1], InvoiceLabels[2]},
                     sp \in MetaSeps, t \in MetaTokens }
    \cup { OrderLabels[1] \o <<"\\", "\\", "A", "-", "1", " ">>
               \o InvoiceLabels[2] \o <<"\\", "\\", "B">>,
           OrderLabels[2] \o <<"\\", "\\", "B", "#">>
               \o OrderLabels[1] \o <<"\\", "\\", "A", "-", "1">>,
           <<"a", "1">> }

\* LINE blocks of these texts, and a WORD block whose text has a pattern match.
MetaBlocks ==
    { Block("LINE", t) : t \in MetaTexts }
    \cup { Block("WORD", OrderLabels[1] \o <<"\\", "\\", "B">>) }

InitMeta ==
    /\ m_blocks \in UNION { [1..n -> MetaBlocks] : n \in 0..MaxMetaBlocks }
    /\ m_idx = 1
    /\ meta = <<>>
    /\ InitOcr
    /\ suffix = ".pdf"
    /\ MatchIdle
    /\ QualityIdle
    /\ TableIdle
    /\ SelectIdle
    /\ UploadIdle

\* One iteration of `for block in blocks`.
ScanBlock ==
    /\ m_idx \in 1..Len(m_blocks)
    /\ meta' = IF m_blocks[m_idx].BlockType # "LINE" THEN meta
               ELSE ScanPatterns(meta, m_blocks[m_idx].Text, 1)
    /\ m_idx' = m_idx + 1
    /\ UNCHANGED <<m_blocks, ocrVars, matchVars, qualityVars, tableVars,
                   selectVars, uploadVars>>

NextMeta == ScanBlock

SpecMeta == InitMeta /\ [][NextMeta]_vars

\* The position after the longest run of whitespace from p.
RECURSIVE SpaceEnd(_, _)
SpaceEnd(text, p) ==
    IF p <= Len(text) /\ IsSpace(text[p]) THEN SpaceEnd(text, p + 1) ELSE p

\* A letter, a digit or a hyphen.
LetterDigitHyphen(ch) == TokenChar(ch) /\ ch # "\\"

\* The token of a text that consists of a label, optional whitespace, an
\* optional half- or full-width colon, optional whitespace and a token of
\* letters, digits and hyphens; <<>> for any other text.
LabelledToken(text, labels) ==
    LET hit == {k \in 1..Len(labels) :
                   /\ Len(labels[k]) <= Len(text)
                   /\ SubSeq(text, 1, Len(labels[k])) = labels[k]}
        label == labels[CHOOSE k \in hit : TRUE]
        p1 == SpaceEnd(text, Len(label) + 1)
        p2 == IF p1 <= Len(text) /\ text[p1] \in {":", "U+FF1A"} THEN p1 + 1 ELSE p1
        p3 == SpaceEnd(text, p2)
    IN  IF hit = {} THEN <<>>
        ELSE IF \A i \in p3..Len(text) : LetterDigitHyphen(text[i])
        THEN SubSeq(text, p3, Len(text))
        ELSE <<>>

IsLine(i) == m_blocks[i].BlockType = "LINE"

\* C13: after the scan, for each key, the first LINE block whose text is a
\* label of the key, optional whitespace, an optional colon, optional
\* whitespace and a token has its token recorded under the key, when no
\* earlier line matched the key.
C13_LabelledTokenRecorded ==
    m_idx > Len(m_blocks)
        => \A k \in 1..Len(patterns), i \in 1..Len(m_blocks) :
              LET key == patterns[k][1]
                  labels == patterns[k][2]
              IN  (/\ IsLine(i)
                   /\ LabelledToken(m_blocks[i].Text, labels) # <<>>
                   /\ \A j \in 1..(i - 1) :
                         IsLine(j) => /\ LabelledToken(m_blocks[j].Text, labels) = <<>>
                                      /\ PatternSearch(m_blocks[j].Text, labels) = <<>>)
                     => /\ DictHas(meta, key)
                        /\ DictGet(meta, key) = LabelledToken(m_blocks[i].Text, labels)

\* The first of the blocks 1..n that is a LINE with a match of the k-th
\* pattern; 0 when there is none.
FirstMatch(k, n) ==
    LET at == {i \in 1..n : IsLine(i) /\ PatternSearch(m_blocks[i].Text, patterns[k][2]) # <<>>}
    IN  IF at = {} THEN 0 ELSE CHOOSE i \in at : \A j \in at : i <= j

\* C14: at every point of the scan, each key holds the token of the first LINE
\* block scanned so far that matches the key's pattern, whatever the later
\* blocks and the other keys matched, and is absent when no block matched.
C14_FirstMatchKept ==
    m_idx >= 1
        => \A k \in 1..Len(patterns) :
              LET f == FirstMatch(k, m_idx - 1)
              IN  IF f = 0 THEN ~DictHas(meta, patterns[k][1])
                  ELSE /\ DictHas(meta, patterns[k][1])
                       /\ DictGet(meta, patterns[k][1])
                            = PatternSearch(m_blocks[f].Text, patterns[k][2])

\* C14 witness: two lines match the order pattern with different tokens, the
\* first one's is kept, and the second line's invoice number is recorded.
C14_Witness ==
    /\ Len(m_blocks) = 2
    /\ m_idx = 3
    /\ IsLine(1) /\ IsLine(2)
    /\ PatternSearch(m_blocks[1].Text, OrderLabels) # <<>>
    /\ PatternSearch(m_blocks[2].Text, OrderLabels) # <<>>
    /\ PatternSearch(m_blocks[1].Text, OrderLabels) # PatternSearch(m_blocks[2].Text, OrderLabels)
    /\ PatternSearch(m_blocks[1].Text, InvoiceLabels) = <<>>
    /\ DictGet(meta, "order_number") = PatternSearch(m_blocks[1].Text, OrderLabels)
    /\ DictHas(meta, "invoice_number")

\* -------------------------------------- _find_header_row, _lines_from_tables

\* The field keys and their aliases, in the order of the dict.
HEADER_ALIASES ==
    << <<"product",
          << <<"U+54C1", "U+540D">>,
             <<"U+54C1", "U+756A">>,
             <<"U+5546", "U+54C1", "U+540D">>,
             <<"U+54C1", "U+76EE">>,
             <<"U+88FD", "U+54C1", "U+540D">>,
             <<"U+54C1", "U+540D", "/", "U+54C1", "U+76EE">>,
             <<"U+5546", "U+54C1", "/", "U+54C1", "U+76EE">> >> >>,
       <<"quantity",
          << <<"U+6570", "U+91CF">>,
             <<"U+6570">>,
             <<"U+6570", "U+91CF", "(", "U+7BB1", ")">>,
             <<"U+6570", "U+91CF", "(", "U+672C", ")">>,
             <<"U+6570", "U+91CF", "(", "U+500B", ")">>,
             <<"U+6570", "U+91CF", "/", "U+7BB1">>,
             <<"U+6570", "U+91CF", "/", "U+672C">> >> >>,
       <<"unit_price",
          << <<"U+5358", "U+4FA1">>,
             <<"U+4FA1", "U+683C">>,
             <<"U+5358", "U+4FA1", "(", "U+5186", ")">>,
             <<"U+5358", "U+4FA1", "(", "U+00A5", ")">> >> >>,
       <<"amount",
          << <<"U+91D1", "U+984D">>,
             <<"U+5408", "U+8A08">>,
             <<"U+91D1", "U+984D", "(", "U+5186", ")">>,
             <<"U+91D1", "U+984D", "(", "U+7A0E", "U+8FBC", ")">> >> >>,
       <<"product_code",
          << <<"U+54C1", "U+756A">>,
             <<"U+578B", "U+5F0F">>,
             <<"U+578B", "U+756A">>,
             <<"U+5546", "U+54C1", "U+30B3", "U+30FC", "U+30C9">>,
             <<"U+30A2", "U+30A4", "U+30C6", "U+30E0", "U+30B3", "U+30FC", "U+30C9">>,
             <<"U+54C1", "U+756A", "/", "U+898F", "U+683C">> >> >>,
       <<"unit",
          << <<"U+5358", "U+4F4D">>,
             <<"U+5358", "U+4F4D", "/", "U+68B1">>,
             <<"U+5358", "U+4F4D", "(", "U+7BB1", ")">>,
             <<"U+5358", "U+4F4D", "(", "U+672C", ")">>,
             <<"U+5358", "U+4F4D", "(", "U+500B", ")">> >> >>,
       <<"unit_number",
          << <<"U+30E6", "U+30CB", "U+30C3", "U+30C8", "N", "o">>,
             <<"U+30E6", "U+30CB", "U+30C3", "U+30C8", "N", "O">>,
             <<"U+30E6", "U+30CB", "U+30C3", "U+30C8", "N", "o", ".">>,
             <<"U+30E6", "U+30CB", "U+30C3", "U+30C8", "U+756A", "U+53F7">>,
             <<"U", "n", "i", "t", " ", "N", "o">> >> >>,
       <<"delivery_number",
          << <<"U+7D0D", "U+54C1", "U+756A", "U+53F7">>,
             <<"U+7D0D", "U+54C1", "N", "o">>,
             <<"U+7D0D", "U+54C1", "N", "O">>,
             <<"U+4F1D", "U+7968", "N", "o">>,
             <<"U+4F1D", "U+7968", "U+756A", "U+53F7">>,
             <<"U+4F1D", "U+7968", "N", "o", ".">> >> >> >>

\* re.sub(r"\s+", "", text or "").strip().lower()
_normalize_header(text) == LowerText(RemoveWhitespace(text))

\* alias in cell or _normalize_header(alias) in normalized
AliasMatches(alias, cell) ==
    \/ Contains(alias, cell)
    \/ Contains(_normalize_header(alias), _normalize_header(cell))

\* `for key, aliases in HEADER_ALIASES.items()` from the k-th key on, for the
\* cell at col_idx: a key already in the mapping is skipped.
RECURSIVE MapCell(_, _, _, _)
MapCell(mapping, cell, col_idx, k) ==
    IF k > Len(HEADER_ALIASES) THEN mapping
    ELSE LET key == HEADER_ALIASES[k][1]
             key_aliases == HEADER_ALIASES[k][2]
         IN  IF ~DictHas(mapping, key)
                /\ \E a \in 1..Len(key_aliases) : AliasMatches(key_aliases[a], cell)
             THEN MapCell(DictPut(mapping, key, col_idx), cell, col_idx, k + 1)
             ELSE MapCell(mapping, cell, col_idx, k + 1)

\* `for col_idx, cell in enumerate(row)` from col_idx on (col_idx counts from 0)
RECURSIVE MapRow(_, _, _)
MapRow(mapping, row, col_idx) ==
    IF col_idx >= Len(row) THEN mapping
    ELSE MapRow(MapCell(mapping, row[col_idx + 1], col_idx, 1), row, col_idx + 1)

\* The decimal digits str and float know, with their values.
DigitValue(ch) ==
    CASE ch = "0" -> 0
      [] ch = "1" -> 1
      [] ch = "2" -> 2
      [] ch = "5" -> 5
      [] ch = "7" -> 7
      [] ch = "U+FF11" -> 1
      [] OTHER -> -1

\* re.sub(r"[^\d\.\-]", "", value)
CleanNumber(value) ==
    SelectSeq(value, LAMBDA ch : DigitValue(ch) >= 0 \/ ch = "." \/ ch = "-")

\* The number a sequence of digits spells.
RECURSIVE DigitsValue(_)
DigitsValue(ds) ==
    IF ds = <<>> THEN 0
    ELSE 10 * DigitsValue(SubSeq(ds, 1, Len(ds) - 1)) + DigitValue(ds[Len(ds)])

RECURSIVE Pow10(_)
Pow10(n) == IF n = 0 THEN 1 ELSE 10 * Pow10(n - 1)

\* float(cleaned) as a rational; <<>> stands for ValueError.  A float literal
\* of these characters is an optional "-", then digits with at most one "."
\* among them and at least one digit.
ParseFloat(cleaned) ==
    LET neg == cleaned # <<>> /\ cleaned[1] = "-"
        body == IF neg THEN Tail(cleaned) ELSE cleaned
        dots == {i \in 1..Len(body) : body[i] = "."}
        digits == SelectSeq(body, LAMBDA ch : DigitValue(ch) >= 0)
        den == IF dots = {} THEN 1 ELSE Pow10(Len(body) - (CHOOSE i \in dots : TRUE))
    IN  IF \/ digits = <<>>
           \/ Cardinality(dots) > 1
           \/ \E i \in 1..Len(body) : body[i] = "-"
        THEN <<>>
        ELSE << (IF neg THEN -1 ELSE 1) * DigitsValue(digits), den >>

_parse_number(value) ==
    IF value = <<>> THEN <<0, 1>>
    ELSE IF ParseFloat(CleanNumber(value)) = <<>> THEN <<0, 1>>
    ELSE ParseFloat(CleanNumber(value))

\* Mutant: rounds half up instead of truncating.
IntOf_Round(x) ==
    IF x[1] >= 0 THEN (2 * x[1] + x[2]) \div (2 * x[2])
    ELSE -((2 * (-x[1]) + x[2]) \div (2 * x[2]))

\* int(x) of a float: truncation toward zero
IntOf(x) == IF x[1] >= 0 THEN x[1] \div x[2] ELSE -((-x[1]) \div x[2])

\* Header cells: product, product code (also a product alias), quantity.
CellProduct == <<"U+54C1", "U+540D">>
CellCode == <<"U+54C1", "U+756A">>
CellQuantity == <<"U+6570", "U+91CF">>

\* Quantity cells: 2, 2.7, blank, 0, -2, 0.5 and the range 1-2.
QuantityCells ==
    { <<"2">>, <<"2", ".", "7">>, <<>>, <<"0">>, <<"-", "2">>, <<"0", ".", "5">>,
      <<"1", "-", "2">> }

\* Rows of two cells: headers mapping product and quantity in either order,
\* product alone, product and product code from one cell; data rows with the
\* product in the first or the second cell, or with a blank product.
TableRowLibrary ==
    { <<CellProduct, CellQuantity>>, <<CellQuantity, CellProduct>>,
      <<CellProduct, <<"a", "1">> >>, <<CellCode, <<>> >> }
    \cup { << <<"a", "1">>, q >> : q \in QuantityCells }
    \cup { << <<"2", ".", "7">>, <<"a", "1">> >>, << <<" ">>, <<"2">> >> }

Tables == UNION { [1..n -> TableRowLibrary] : n \in 1..MaxRows }

InitTable ==
    /\ table \in Tables
    /\ table0 = table
    /\ table_pc = "scan"
    /\ scan_idx = 0
    /\ best_row = 0
    /\ best_match = <<>>
    /\ steps = 0
    /\ line_idx = 0
    /\ extracted = <<>>
    /\ InitOcr
    /\ suffix = ".pdf"
    /\ MatchIdle
    /\ QualityIdle
    /\ MetaIdle
    /\ SelectIdle
    /\ UploadIdle

\* Mutant: the row index counts from 1.
BestRowOf_OneBased(i) == i + 1

\* best_row = row_idx
BestRowOf(i) == i

\* Mutant: the scan stops at 3 mapped fields.
HeaderBreak_AtThree(mapping) == Len(mapping) >= 3

\* if len(mapping) >= 2: break
HeaderBreak(mapping) == Len(mapping) >= 2

\* One iteration of `for row_idx, row in enumerate(table)` of _find_header_row;
\* the last one returns to _lines_from_tables, which starts below the header.
FindHeaderStep ==
    /\ table_pc = "scan"
    /\ scan_idx < Len(table)
    /\ \E mapping \in {MapRow(<<>>, table[scan_idx + 1], 0)} :
          LET better == Len(mapping) > Len(best_match)
              new_row == IF better THEN BestRowOf(scan_idx) ELSE best_row
              last == HeaderBreak(mapping) \/ scan_idx + 1 >= Len(table)
          IN  /\ best_match' = IF better THEN mapping ELSE best_match
              /\ best_row' = new_row
              /\ scan_idx' = IF HeaderBreak(mapping) THEN scan_idx ELSE scan_idx + 1
              /\ table_pc' = IF last THEN "lines" ELSE "scan"
              /\ line_idx' = IF last THEN new_row + 1 ELSE line_idx
    /\ steps' = steps + 1
    /\ UNCHANGED <<table, table0, extracted, ocrVars, matchVars, qualityVars, metaVars,
                   selectVars, uploadVars>>

\* int(_parse_number(cell)) or 1
QuantityOf(cell) ==
    IF IntOf(_parse_number(cell)) # 0 THEN IntOf(_parse_number(cell)) ELSE 1

\* _parse_number of the cell the mapping names for key, `absent` without it.
NumberAt(row, key, absent) ==
    IF DictHas(best_match, key) THEN _parse_number(row[DictGet(best_match, key) + 1])
    ELSE absent

\* One iteration of `for row in table[header_row + 1:]`.
BuildLine ==
    /\ table_pc = "lines"
    /\ DictHas(best_match, "product")
    /\ line_idx < Len(table)
    /\ LET row == table[line_idx + 1]
           product_text == Strip(row[DictGet(best_match, "product") + 1])
           quantity == IF DictHas(best_match, "quantity")
                       THEN QuantityOf(row[DictGet(best_match, "quantity") + 1]) ELSE 1
           unit_price == NumberAt(row, "unit_price", <<0, 1>>)
           amount == NumberAt(row, "amount", <<0, 1>>)
       IN  extracted' =
               IF product_text = <<>> THEN extracted
               ELSE Append(extracted,
                           [src |-> line_idx,
                            extracted_text |-> product_text,
                            quantity |-> quantity,
                            unit_price |-> unit_price,
                            line_total |-> IF amount[1] # 0 THEN amount
                                           ELSE <<unit_price[1] * quantity, unit_price[2]>>])
    /\ line_idx' = line_idx + 1
    /\ UNCHANGED <<table, table0, table_pc, scan_idx, best_row, best_match, steps,
                   ocrVars, matchVars, qualityVars, metaVars,
                   selectVars, uploadVars>>

NextTable == FindHeaderStep \/ BuildLine

SpecTable == InitTable /\ [][NextTable]_vars

\* C15: _find_header_row examines a row per step from the top, each row at most
\* once, so it has returned after at most as many steps as the table has rows;
\* the row index it returns is 0 or an index of a row of the table; the table
\* is as it was handed over.
C15_HeaderSearchBounded ==
    table_pc # "idle"
        => /\ steps <= Len(table)
           /\ table_pc = "scan" => steps = scan_idx /\ scan_idx < Len(table)
           /\ table_pc = "lines" => best_row = 0 \/ best_row \in 0..(Len(table) - 1)
           /\ table = table0

\* C15 witness: every row was examined and the last one is returned.
C15_Witness ==
    /\ table_pc = "lines"
    /\ Len(table) = 2
    /\ steps = 2
    /\ best_row = 1
    /\ table = table0

\* The header row maps product and quantity, and line e was built below it.
LineCell(e, key) == table[e.src + 1][DictGet(best_match, key) + 1]

\* A cell spelling a decimal number: digits with at most one "." among them.
IsDecimal(cell) ==
    /\ \A i \in 1..Len(cell) : DigitValue(cell[i]) >= 0 \/ cell[i] = "."
    /\ Cardinality({i \in 1..Len(cell) : cell[i] = "."}) <= 1
    /\ \E i \in 1..Len(cell) : DigitValue(cell[i]) >= 0

\* The value of such a cell as a rational.
DecimalValue(cell) ==
    LET dots == {i \in 1..Len(cell) : cell[i] = "."}
    IN  << DigitsValue(SelectSeq(cell, LAMBDA ch : ch # ".")),
           IF dots = {} THEN 1 ELSE Pow10(Len(cell) - (CHOOSE i \in dots : TRUE)) >>

\* C11 as stated: with product and quantity mapped, every line has the
\* quantity cell's number rounded to the nearest integer as its quantity, and
\* quantity 1 when the cell is blank.
C11_Original ==
    (DictHas(best_match, "product") /\ DictHas(best_match, "quantity"))
        => \A k \in 1..Len(extracted) :
              LET e == extracted[k]
                  cell == LineCell(e, "quantity")
                  v == DecimalValue(cell)
              IN  /\ Strip(cell) = <<>> => e.quantity = 1
                  /\ IsDecimal(cell)
                        => /\ 2 * e.quantity * v[2] <= 2 * v[1] + v[2]
                           /\ 2 * e.quantity * v[2] >= 2 * v[1] - v[2]

\* C11 amended: the quantity is the cell's number with its fraction dropped
\* when that number is 1 or more, and 1 when the cell is blank or its number is
\* less than 1 and not negative.
C11_Amended ==
    (DictHas(best_match, "product") /\ DictHas(best_match, "quantity"))
        => \A k \in 1..Len(extracted) :
              LET e == extracted[k]
                  cell == LineCell(e, "quantity")
                  v == DecimalValue(cell)
              IN  /\ Strip(cell) = <<>> => e.quantity = 1
                  /\ (IsDecimal(cell) /\ v[1] >= v[2])
                        => /\ e.quantity * v[2] <= v[1]
                           /\ (e.quantity + 1) * v[2] > v[1]
                  /\ (IsDecimal(cell) /\ v[1] < v[2]) => e.quantity = 1

\* C11 witness: a line built from the quantity cell 2.7 has quantity 2.
C11_Witness ==
    /\ DictHas(best_match, "product")
    /\ DictHas(best_match, "quantity")
    /\ \E k \in 1..Len(extracted) :
          /\ LineCell(extracted[k], "quantity") = <<"2", ".", "7">>
          /\ extracted[k].quantity = 2

\* The mapping of the row with index r (from 0), and the rows mapping at
\* least n fields.
MappingOfRow(r) == MapRow(<<>>, table[r + 1], 0)
RowsMapping(n) == {r \in 0..(Len(table) - 1) : Len(MappingOfRow(r)) >= n}
Topmost(rows) == CHOOSE r \in rows : \A q \in rows : r <= q

\* C21: when _find_header_row has returned, it returns the topmost row mapping
\* at least 2 fields with that row's mapping, having examined no row below it;
\* without such a row it returns the topmost of the rows mapping 1 field with
\* its mapping, and row 0 with the empty mapping when no row maps a field.
C21_HeaderRowChoice ==
    table_pc = "lines"
        => IF RowsMapping(2) # {}
           THEN /\ best_row = Topmost(RowsMapping(2))
                /\ best_match = MappingOfRow(best_row)
                /\ steps = best_row + 1
           ELSE IF RowsMapping(1) # {}
           THEN /\ best_row = Topmost(RowsMapping(1))
                /\ best_match = MappingOfRow(best_row)
           ELSE best_row = 0 /\ best_match = <<>>

\* C21 witness: both rows map 2 fields; the first is returned and the second
\* was not examined.
C21_Witness ==
    /\ table_pc = "lines"
    /\ Len(table) = 2
    /\ RowsMapping(2) = {0, 1}
    /\ best_row = 0
    /\ Len(best_match) = 2
    /\ steps = 1

\* C22: every line built from a table has quantity >= 1, and quantity 1 when
\* the quantity cell is empty, unparseable, zero or negative (its number, 0.0
\* for an empty or unparseable cell, is not positive).
C22_QuantityAtLeastOne ==
    \A k \in 1..Len(extracted) :
        /\ extracted[k].quantity >= 1
        /\ (DictHas(best_match, "quantity")
              /\ _parse_number(LineCell(extracted[k], "quantity"))[1] <= 0)
              => extracted[k].quantity = 1

AliasHitProducts(t) ==
    {aliases[i].product_id : i \in {j \in 1..Len(aliases) : Hits(aliases[j].alias_name, t)}}

\* C24: a line whose lowercased text contains a non-empty alias resolves to a
\* product of a contained alias, whatever product names the text contains too.
C24_AliasBeforeName ==
    \A k \in 1..Len(order_lines) :
        AliasHitProducts(order_lines[k].extracted_text) # {}
            => order_lines[k].product_id \in AliasHitProducts(order_lines[k].extracted_text)

\* C24 witness: the text contains the alias of product 2 and the name of
\* product 1, and the line resolves to product 2.
C24_Witness ==
    \E k \in 1..Len(order_lines) :
        /\ AliasHitProducts(order_lines[k].extracted_text) = {2}
        /\ \E i \in 1..Len(products) :
              /\ products[i].id = 1
              /\ Hits(products[i].internal_name, order_lines[k].extracted_text)
        /\ order_lines[k].product_id = 2
        /\ order_lines[k].normalized_name = <<"B", "B">>

\* ------------------------------------- extract_order_data: candidate choice

\* Most lines of a short candidate.
MaxSelLines == 2

\* `lines[:50]`
SampleSize == 50

\* Stripped, non-empty line texts of quality 1, 0 and 1/2.
SelTexts == { <<"a">>, <<"#">>, <<"a", "#">> }

SelTextLists == UNION { [1..n -> SelTexts] : n \in 0..MaxSelLines }

\* The dict _lines_from_tables appends for a row whose product cell is t.
TableLine(t) ==
    [extracted_text |-> t, quantity |-> 1, unit_price |-> <<0, 1>>,
     line_total |-> <<0, 1>>, product_code |-> <<>>, unit |-> <<>>,
     unit_number |-> <<>>, delivery_number |-> <<>>]

\* The dict _lines_from_blocks appends for a LINE block whose text is t.
BlockLine(t) ==
    [extracted_text |-> t, quantity |-> 1, unit_price |-> <<0, 1>>,
     line_total |-> <<0, 1>>]

\* Results of _lines_from_tables: the short ones, and two of SampleSize + 1
\* lines whose last line differs from the others.
TableLineSets ==
    { [i \in 1..Len(ts) |-> TableLine(ts[i])] : ts \in SelTextLists }
        \cup { Rep(TableLine(<<"a">>), SampleSize) \o << TableLine(<<"#">>) >>,
               Rep(TableLine(<<"#">>), SampleSize) \o << TableLine(<<"a">>) >> }

\* Results of _lines_from_blocks.
BlockLineSets ==
    { [i \in 1..Len(ts) |-> BlockLine(ts[i])] : ts \in SelTextLists }
        \cup { Rep(BlockLine(<<"a">>), SampleSize) \o << BlockLine(<<"#">>) >> }

\* The whole list instead of lines[:50].
Sample_All(ls) == ls

\* lines[:50]
Sample(ls) == SubSeq(ls, 1, IF Len(ls) < SampleSize THEN Len(ls) ELSE SampleSize)

_extracted_lines_quality(ls) ==
    IF ls = <<>> THEN <<0, 1>>
    ELSE LET sample == Sample(ls)
             sample_text == JoinLines([i \in 1..Len(sample) |-> sample[i].extracted_text])
         IN  _ocr_text_quality(sample_text)

InitSelect ==
    /\ table_lines \in TableLineSets
    /\ block_lines \in BlockLineSets
    /\ lines = <<>>
    /\ sel_pc = "choose"
    /\ InitOcr
    /\ suffix = ".pdf"
    /\ MatchIdle
    /\ QualityIdle
    /\ MetaIdle
    /\ TableIdle
    /\ UploadIdle

\* `if table_lines:` the better of the two candidates, the table's on a tie.
ChooseByQuality ==
    /\ sel_pc = "choose"
    /\ table_lines # <<>>
    /\ \E table_quality \in {_extracted_lines_quality(table_lines)},
          block_quality \in {_extracted_lines_quality(block_lines)} :
          lines' = IF RatGe(table_quality, block_quality) THEN table_lines ELSE block_lines
    /\ sel_pc' = "returned"
    /\ UNCHANGED <<table_lines, block_lines, ocrVars, matchVars, qualityVars, metaVars,
                   tableVars, uploadVars>>

\* `else: lines = block_lines`
ChooseBlockLines ==
    /\ sel_pc = "choose"
    /\ table_lines = <<>>
    /\ lines' = block_lines
    /\ sel_pc' = "returned"
    /\ UNCHANGED <<table_lines, block_lines, ocrVars, matchVars, qualityVars, metaVars,
                   tableVars, uploadVars>>

NextSelect == ChooseByQuality \/ ChooseBlockLines

SpecSelect == InitSelect /\ [][NextSelect]_vars

\* textQuality over the first 50 extracted_text values of a line set.
FirstTexts(ls) ==
    [i \in 1..(IF Len(ls) < 50 THEN Len(ls) ELSE 50) |-> ls[i].extracted_text]
LinesQuality(ls) == _ocr_text_quality(JoinLines(FirstTexts(ls)))

\* C25: the lines returned are the table-derived set or the raw-line set as a
\* whole: the table-derived set exactly when it is non-empty and its
\* linesQuality (text quality over its first 50 texts) is at least the
\* raw-line set's, a tie included; the raw-line set in every other case.
C25_TableOrRawLines ==
    sel_pc = "returned"
        => LET keep == /\ table_lines # <<>>
                       /\ RatGe(LinesQuality(table_lines), LinesQuality(block_lines))
           IN  /\ lines = table_lines \/ lines = block_lines
               /\ keep => lines = table_lines
               /\ ~keep => lines = block_lines

\* C25 witness: a table-derived set of more than 50 lines ties with a
\* non-empty raw-line set over the first 50 texts and is the one returned.
C25_Witness ==
    /\ sel_pc = "returned"
    /\ Len(table_lines) > 50
    /\ block_lines # <<>>
    /\ RatEq(LinesQuality(table_lines), LinesQuality(block_lines))
    /\ lines = table_lines
    /\ lines # block_lines

\* ------------------------------------------- upload_order: what is persisted

\* Most rows extract_order_data returns to an upload.
MaxUploadRows == 2

allowed_extensions == {".pdf", ".png", ".jpg", ".jpeg", ".tif", ".tiff"}

\* Ids of the Customer rows.
Customers == {1}

\* extracted_meta: nothing found, an order number, all three identifiers.
UploadMetas ==
    { <<>>,
      << <<"order_number", <<"A", "-", "1">> >> >>,
      << <<"order_number", <<"A", "-", "1">> >>, <<"delivery_number", <<"7">> >>,
         <<"invoice_number", <<"s">> >> >> }

\* What extract_order_data does: it raises OCRException, or returns lines
\* (texts stripped and non-empty), the metadata and the raw text.
OcrOutcomes ==
    { [raises |-> "OCRException", extracted_lines |-> <<>>, extracted_meta |-> <<>>,
       raw_text |-> <<>>] }
        \cup { [raises |-> "", extracted_lines |-> ls, extracted_meta |-> md,
                raw_text |-> JoinLines(ls)] :
                 ls \in UNION { [1..n -> { <<"a">>, <<"B">> }] : n \in 0..MaxUploadRows },
                 md \in UploadMetas }

\* SalesOrder(customer_id=..., status="uploaded") once committed and refreshed;
\* identifiers holds the order/delivery/invoice numbers assigned to it.
NewOrder(id, cid) ==
    [id |-> id, customer_id |-> cid, status |-> "uploaded", identifiers |-> <<>>]

\* The order tables before the request: empty, or an order an earlier upload left.
PriorOrders == { <<>>, << NewOrder(1, 0) >> }

\* The primary key the database gives the next row of a table (no row is ever deleted).
NewId(rows) == Len(rows) + 1

\* Leaving the session undoes the commits made for the order.
CloseSession_Rollback(rows, id) == SelectSeq(rows, LAMBDA r : r.id # id)

\* `with Session(engine) as session`: leaving the session discards what was
\* added and not committed; committed rows stay.
CloseSession(rows, id) == rows

\* `if extracted_meta.get(key): order.<key> = extracted_meta[key]`, three times
AttachIdentifiers(identifiers, extracted_meta) ==
    LET set(d, k) ==
            IF DictHas(extracted_meta, k) /\ DictGet(extracted_meta, k) # <<>>
                THEN DictPut(d, k, DictGet(extracted_meta, k))
                ELSE d
    IN  set(set(set(identifiers, "order_number"), "delivery_number"), "invoice_number")

ExtensionAllowed == Lower(u_suffix) \in allowed_extensions

CustomerFound == u_customer_id = 0 \/ u_customer_id \in Customers

InitUpload ==
    /\ u_pc = "start"
    /\ u_suffix \in Suffixes
    /\ u_customer_id \in {0, 2} \cup Customers
    /\ u_ocr \in OcrOutcomes
    /\ u_order_id = 0
    /\ u_audit_id = 0
    /\ u_row = 0
    /\ session_new = <<>>
    /\ db_orders \in PriorOrders
    /\ db_audits = <<>>
    /\ db_lines = <<>>
    /\ db_audit_lines = <<>>
    /\ InitOcr
    /\ suffix = ".pdf"
    /\ MatchIdle
    /\ QualityIdle
    /\ MetaIdle
    /\ TableIdle
    /\ SelectIdle

\* HTTP 400 "Unsupported file type"
RejectExtension ==
    /\ u_pc = "start"
    /\ ~ExtensionAllowed
    /\ u_pc' = "http400"
    /\ UNCHANGED <<u_suffix, u_customer_id, u_ocr, u_order_id, u_audit_id, u_row,
                   session_new, db_orders, db_audits, db_lines, db_audit_lines,
                   ocrVars, matchVars, qualityVars, metaVars, tableVars, selectVars>>

\* HTTP 404 "Customer not found"
RejectCustomer ==
    /\ u_pc = "start"
    /\ ExtensionAllowed
    /\ ~CustomerFound
    /\ u_pc' = "http404"
    /\ UNCHANGED <<u_suffix, u_customer_id, u_ocr, u_order_id, u_audit_id, u_row,
                   session_new, db_orders, db_audits, db_lines, db_audit_lines,
                   ocrVars, matchVars, qualityVars, metaVars, tableVars, selectVars>>

\* The file is stored; the order is added, committed and refreshed.
CreateOrder ==
    /\ u_pc = "start"
    /\ ExtensionAllowed
    /\ CustomerFound
    /\ db_orders' = Append(db_orders, NewOrder(NewId(db_orders), u_customer_id))
    /\ u_order_id' = NewId(db_orders)
    /\ u_pc' = "extract"
    /\ UNCHANGED <<u_suffix, u_customer_id, u_ocr, u_audit_id, u_row,
                   session_new, db_audits, db_lines, db_audit_lines,
                   ocrVars, matchVars, qualityVars, metaVars, tableVars, selectVars>>

\* extract_order_data raises OCRException: HTTP 422, and the session is left.
ExtractFails ==
    /\ u_pc = "extract"
    /\ u_ocr.raises = "OCRException"
    /\ u_pc' = "http422"
    /\ session_new' = <<>>
    /\ db_orders' = CloseSession(db_orders, u_order_id)
    /\ UNCHANGED <<u_suffix, u_customer_id, u_ocr, u_order_id, u_audit_id, u_row,
                   db_audits, db_lines, db_audit_lines,
                   ocrVars, matchVars, qualityVars, metaVars, tableVars, selectVars>>

\* extract_order_data returns; the audit is added, committed and refreshed.
RecordAudit ==
    /\ u_pc = "extract"
    /\ u_ocr.raises = ""
    /\ db_audits' = Append(db_audits, [id |-> NewId(db_audits), order_id |-> u_order_id,
                                       raw_text |-> u_ocr.raw_text,
                                       meta_json |-> u_ocr.extracted_meta])
    /\ u_audit_id' = NewId(db_audits)
    /\ u_pc' = "meta"
    /\ UNCHANGED <<u_suffix, u_customer_id, u_ocr, u_order_id, u_row,
                   session_new, db_orders, db_lines, db_audit_lines,
                   ocrVars, matchVars, qualityVars, metaVars, tableVars, selectVars>>

\* `if extracted_meta:` the identifiers found are put on the order and committed.
RecordMeta ==
    /\ u_pc = "meta"
    /\ db_orders' =
          IF u_ocr.extracted_meta = <<>> THEN db_orders
          ELSE [i \in 1..Len(db_orders) |->
                   IF db_orders[i].id = u_order_id
                       THEN [db_orders[i] EXCEPT
                                !.identifiers = AttachIdentifiers(@, u_ocr.extracted_meta)]
                       ELSE db_orders[i]]
    /\ u_row' = 1
    /\ u_pc' = "rows"
    /\ UNCHANGED <<u_suffix, u_customer_id, u_ocr, u_order_id, u_audit_id,
                   session_new, db_audits, db_lines, db_audit_lines,
                   ocrVars, matchVars, qualityVars, metaVars, tableVars, selectVars>>

\* One turn of `for row in extracted_lines`: an OrderLine and an OCRAuditLine
\* are added to the session (their product and price fields are those of
\* ResolveRow).
AddRow ==
    /\ u_pc = "rows"
    /\ u_row <= Len(u_ocr.extracted_lines)
    /\ session_new' = session_new \o
          << [kind |-> "OrderLine", parent |-> u_order_id,
              extracted_text |-> u_ocr.extracted_lines[u_row]],
             [kind |-> "OCRAuditLine", parent |-> u_audit_id,
              extracted_text |-> u_ocr.extracted_lines[u_row]] >>
    /\ u_row' = u_row + 1
    /\ UNCHANGED <<u_pc, u_suffix, u_customer_id, u_ocr, u_order_id, u_audit_id,
                   db_orders, db_audits, db_lines, db_audit_lines,
                   ocrVars, matchVars, qualityVars, metaVars, tableVars, selectVars>>

\* The commit after the loop, and the UploadResponse.
CommitRows ==
    /\ u_pc = "rows"
    /\ u_row > Len(u_ocr.extracted_lines)
    /\ db_lines' = db_lines \o SelectSeq(session_new, LAMBDA o : o.kind = "OrderLine")
    /\ db_audit_lines' =
          db_audit_lines \o SelectSeq(session_new, LAMBDA o : o.kind = "OCRAuditLine")
    /\ session_new' = <<>>
    /\ u_pc' = "done"
    /\ UNCHANGED <<u_suffix, u_customer_id, u_ocr, u_order_id, u_audit_id, u_row,
                   db_orders, db_audits,
                   ocrVars, matchVars, qualityVars, metaVars, tableVars, selectVars>>

NextUpload ==
    \/ RejectExtension
    \/ RejectCustomer
    \/ CreateOrder
    \/ ExtractFails
    \/ RecordAudit
    \/ RecordMeta
    \/ AddRow
    \/ CommitRows

SpecUpload == InitUpload /\ [][NextUpload]_vars

\* The committed order rows of this request.
OwnOrders == SelectSeq(db_orders, LAMBDA o : o.id = u_order_id)

\* C26: while extraction runs the order of the request is committed with
\* status "uploaded"; when extraction fails the request ends with HTTP 422
\* and that order stays committed, with no order line, no audit record and no
\* extracted identifier attached to it.
C26_OrderKeptOnOcrFailure ==
    /\ u_pc = "extract"
          => /\ Len(OwnOrders) = 1
             /\ OwnOrders[1].status = "uploaded"
             /\ db_audits = <<>> /\ db_lines = <<>>
    /\ (u_order_id # 0 /\ u_ocr.raises = "OCRException" /\ u_pc # "extract")
          => /\ u_pc = "http422"
             /\ Len(OwnOrders) = 1
             /\ OwnOrders[1].status = "uploaded"
             /\ OwnOrders[1].identifiers = <<>>
             /\ \A i \in 1..Len(db_audits) : db_audits[i].order_id # u_order_id
             /\ \A i \in 1..Len(db_lines) : db_lines[i].parent # u_order_id
             /\ session_new = <<>>

\* C26 witness: an upload for a known customer, made when an earlier order
\* exists, ended with HTTP 422 and left its order as the second committed one.
C26_Witness ==
    /\ u_pc = "http422"
    /\ u_ocr.raises = "OCRException"
    /\ u_customer_id \in Customers
    /\ Len(db_orders) = 2
    /\ db_orders[2].id = u_order_id
    /\ db_orders[2].status = "uploaded"

====
